---------------------------- MODULE Spec2Model ----------------------------
(***************************************************************************)
(* Model of src/src/lib/curves.ts: the hype-cycle and S-curve generators,  *)
(* blendCurves, offsetCurve and generateCombinedCurve.                     *)
(*                                                                         *)
(* A JavaScript number is modelled as an exact rational <<n, d>> in lowest *)
(* terms with d > 0, or as NaN (<<0, 0>>), the result of 0/0.  Arithmetic  *)
(* is exact: the rounding of IEEE doubles is abstracted away.  Math.exp is *)
(* a transcendental function; Exp below is a rational approximation of it  *)
(* that keeps its sign, its monotonicity and exp(0) = 1.                   *)
(*                                                                         *)
(* Each behaviour is one call of one exported function: the initial state  *)
(* holds the arguments, the function's action computes the return value.   *)
(***************************************************************************)
EXTENDS Integers, Sequences, FiniteSets, TLC

VARIABLES call, ret, pc

vars == <<call, ret, pc>>

-----------------------------------------------------------------------------
(* Numbers *)

NaN == <<0, 0>>

IsNaN(a) == a[2] = 0

AbsInt(n) == IF n < 0 THEN -n ELSE n

RECURSIVE GCD(_, _)
GCD(a, b) == IF b = 0 THEN a ELSE GCD(b, a % b)

\* n/d in lowest terms with a positive denominator; NaN when d = 0.
Norm(n, d) ==
  IF d = 0 THEN NaN
  ELSE LET g == GCD(AbsInt(n), AbsInt(d))
           s == IF d < 0 THEN -1 ELSE 1
       IN  <<s * (n \div g), s * (d \div g)>>

R(n) == <<n, 1>>

Q(n, d) == Norm(n, d)

\* a + b
RAdd(a, b) ==
  IF IsNaN(a) \/ IsNaN(b) THEN NaN
  ELSE LET g == GCD(a[2], b[2])
       IN  Norm(a[1] * (b[2] \div g) + b[1] * (a[2] \div g), (a[2] \div g) * b[2])

\* -a
RNeg(a) == IF IsNaN(a) THEN NaN ELSE <<-a[1], a[2]>>

\* a - b
RSub(a, b) == RAdd(a, RNeg(b))

\* a * b
RMul(a, b) ==
  IF IsNaN(a) \/ IsNaN(b) THEN NaN
  ELSE LET g1 == GCD(AbsInt(a[1]), b[2])
           g2 == GCD(AbsInt(b[1]), a[2])
       IN  Norm((a[1] \div g1) * (b[1] \div g2), (a[2] \div g2) * (b[2] \div g1))

\* a / b.  The only zero divisor the code can meet is 0/0 (i / points with
\* points = 0 and i = 0), which is NaN.
RDiv(a, b) ==
  IF IsNaN(a) \/ IsNaN(b) \/ b[1] = 0 THEN NaN
  ELSE RMul(a, Norm(b[2], b[1]))

\* a === b: NaN equals nothing, itself included.
REq(a, b) == ~IsNaN(a) /\ ~IsNaN(b) /\ a = b

\* a < b: false when either side is NaN.
RLt(a, b) ==
  /\ ~IsNaN(a)
  /\ ~IsNaN(b)
  /\ LET g == GCD(a[2], b[2])
     IN  a[1] * (b[2] \div g) < b[1] * (a[2] \div g)

\* a <= b and a >= b: false when either side is NaN.
RLe(a, b) == RLt(a, b) \/ REq(a, b)

RGe(a, b) == RLe(b, a)

\* Math.abs
RAbs(a) == IF IsNaN(a) THEN NaN ELSE <<AbsInt(a[1]), a[2]>>

\* Math.max and Math.min: NaN when either argument is NaN.
RMax(a, b) == IF IsNaN(a) \/ IsNaN(b) THEN NaN ELSE IF RLt(a, b) THEN b ELSE a

RMin(a, b) == IF IsNaN(a) \/ IsNaN(b) THEN NaN ELSE IF RLt(b, a) THEN b ELSE a

\* Math.exp, approximated: e^x = 2^(x * log2 e) with log2 e ~ 13/9, and 2^y
\* for y = k + f (k integer, 0 <= f < 1) taken as 2^k when f < 1/2 and as
\* 2^k * 3/2 otherwise.  Positive, nondecreasing, Exp(0) = 1.
Exp(x) ==
  IF IsNaN(x) THEN NaN
  ELSE LET y == RMul(x, <<13, 9>>)
           k == y[1] \div y[2]
           m == 2 + ((2 * (y[1] - k * y[2])) \div y[2])
       IN  IF k >= 0 THEN Norm(m * (2 ^ k), 2) ELSE Norm(m, 2 * (2 ^ (-k)))

-----------------------------------------------------------------------------
(* src/src/lib/curves.ts *)

CurvePoint(t, v) == [time |-> t, value |-> v]

\* The value of the hype cycle at time t, before clamping (lines 21-42).
HypeValue(t) ==
  IF RLt(t, R(0)) THEN Q(5, 100)
  ELSE IF RLe(t, R(3)) THEN
    RAdd(Q(1, 10),
         RMul(RMul(Q(9, 10), RSub(R(1), Exp(RMul(RNeg(t), Q(15, 10))))),
              Exp(RDiv(RNeg(RMul(RSub(t, Q(25, 10)), RSub(t, Q(25, 10)))), R(2)))))
  ELSE IF RLe(t, R(10)) THEN
    LET peakValue == Q(95, 100)
        troughValue == Q(15, 100)
        decline == Exp(RMul(RNeg(RSub(t, R(3))), Q(8, 10)))
    IN  RAdd(troughValue, RMul(RSub(peakValue, troughValue), decline))
  ELSE
    LET troughValue == Q(15, 100)
        plateauValue == Q(7, 10)
        progress == RMin(R(1), RDiv(RSub(t, R(10)), R(8)))
    IN  RAdd(troughValue,
             RMul(RSub(plateauValue, troughValue),
                  RDiv(R(1), RAdd(R(1), Exp(RMul(R(-5), RSub(progress, Q(5, 10))))))))

\* Faulty variant: the range is timeRange alone, Math.abs(startTime) is not added.
SampleTime_NoAbs(i, timeRange, points, startTime) ==
  RAdd(RMul(RDiv(R(i), R(points)), timeRange), startTime)

\* The time of sample i (lines 11 and 14, 53 and 56).
SampleTime(i, timeRange, points, startTime) ==
  LET totalRange == RAdd(timeRange, RAbs(startTime))
  IN  RAdd(RMul(RDiv(R(i), R(points)), totalRange), startTime)

\* Faulty variant: the loop runs while i < points.
generateHypeCycle_LoopLt(timeRange, points, startTime) ==
  [j \in 1..points |->
     LET t == SampleTime(j - 1, timeRange, points, startTime)
     IN  CurvePoint(t, RMax(R(0), RMin(R(1), HypeValue(t))))]

generateHypeCycle(timeRange, points, startTime) ==
  [j \in 1..(points + 1) |->
     LET t == SampleTime(j - 1, timeRange, points, startTime)
     IN  CurvePoint(t, RMax(R(0), RMin(R(1), HypeValue(t))))]

generateSCurve(timeRange, points, startTime) ==
  [j \in 1..(points + 1) |->
     LET t == SampleTime(j - 1, timeRange, points, startTime)
         growthRate == Q(5, 10)
         midpoint == RMul(timeRange, Q(4, 10))
     IN  CurvePoint(t, RDiv(R(1), RAdd(R(1), Exp(RMul(RNeg(growthRate), RSub(t, midpoint))))))]

\* Faulty variant: the weights of the two curves are exchanged.
blendCurves_WeightsSwapped(curve1, curve2, blendRatio) ==
  LET minLength == IF Len(curve1) < Len(curve2) THEN Len(curve1) ELSE Len(curve2)
  IN  [i \in 1..minLength |->
         CurvePoint(curve1[i].time,
                    RAdd(RMul(curve1[i].value, blendRatio),
                         RMul(curve2[i].value, RSub(R(1), blendRatio))))]

\* Faulty variant: the time of a blended point is taken from curve2.
blendCurves_TimeOfCurve2(curve1, curve2, blendRatio) ==
  LET minLength == IF Len(curve1) < Len(curve2) THEN Len(curve1) ELSE Len(curve2)
  IN  [i \in 1..minLength |->
         CurvePoint(curve2[i].time,
                    RAdd(RMul(curve1[i].value, RSub(R(1), blendRatio)),
                         RMul(curve2[i].value, blendRatio)))]

\* Lines 72-89.  curve1[i] and curve2[i] exist for every i the loop visits,
\* so no access is out of range.
blendCurves(curve1, curve2, blendRatio) ==
  LET minLength == IF Len(curve1) < Len(curve2) THEN Len(curve1) ELSE Len(curve2)
  IN  [i \in 1..minLength |->
         CurvePoint(curve1[i].time,
                    RAdd(RMul(curve1[i].value, RSub(R(1), blendRatio)),
                         RMul(curve2[i].value, blendRatio)))]

\* Lines 94-97.
offsetCurveMap(curve, offset) ==
  [i \in 1..Len(curve) |-> CurvePoint(RAdd(curve[i].time, offset), curve[i].value)]

\* Lines 105-111: the index of the first consecutive pair around time, 0 if
\* the loop ends without a break.
FindPair(m, time) ==
  LET found == {i \in 1..(Len(m) - 1) :
                  RLe(m[i].time, time) /\ RGe(m[i + 1].time, time)}
  IN  IF found = {} THEN 0 ELSE CHOOSE i \in found : \A j \in found : i <= j

\* Lines 102-103 and 107-108.
beforePoint(m, time) == IF FindPair(m, time) = 0 THEN m[1] ELSE m[FindPair(m, time)]

afterPoint(m, time) ==
  IF FindPair(m, time) = 0 THEN m[Len(m)] ELSE m[FindPair(m, time) + 1]

\* Faulty variant: the interpolation starts from the after point.
Interpolate_FromAfter(m, time) ==
  LET before == beforePoint(m, time)
      after == afterPoint(m, time)
  IN  IF REq(before.time, after.time) THEN CurvePoint(time, before.value)
      ELSE LET t == RDiv(RSub(time, before.time), RSub(after.time, before.time))
               value == RAdd(after.value, RMul(t, RSub(before.value, after.value)))
           IN  CurvePoint(time, RMax(R(0), RMin(R(1), value)))

\* Faulty variant: the interpolated value is not clamped.
Interpolate_NoClamp(m, time) ==
  LET before == beforePoint(m, time)
      after == afterPoint(m, time)
  IN  IF REq(before.time, after.time) THEN CurvePoint(time, before.value)
      ELSE LET t == RDiv(RSub(time, before.time), RSub(after.time, before.time))
               value == RAdd(before.value, RMul(t, RSub(after.value, before.value)))
           IN  CurvePoint(time, value)

\* Lines 100-122, the callback of originalTimes.map, for a non-empty curve.
Interpolate(m, time) ==
  LET before == beforePoint(m, time)
      after == afterPoint(m, time)
  IN  IF REq(before.time, after.time) THEN CurvePoint(time, before.value)
      ELSE LET t == RDiv(RSub(time, before.time), RSub(after.time, before.time))
               value == RAdd(before.value, RMul(t, RSub(after.value, before.value)))
           IN  CurvePoint(time, RMax(R(0), RMin(R(1), value)))

\* Lines 92-123.  With an empty curve offsetCurveMap[0] is undefined, and the
\* read of beforePoint.time throws a TypeError for the first reference time.
offsetCurveThrows(curve, originalTimes) == Len(curve) = 0 /\ Len(originalTimes) > 0

\* Faulty variant: the curve is shifted and returned without resampling.
offsetCurve_ShiftOnly(curve, offset, originalTimes) == offsetCurveMap(curve, offset)

offsetCurve(curve, offset, originalTimes) ==
  IF offsetCurveThrows(curve, originalTimes) THEN <<>>
  ELSE [i \in 1..Len(originalTimes) |->
          Interpolate(offsetCurveMap(curve, offset), originalTimes[i])]

\* Line 142.
TimesOf(curve) == [i \in 1..Len(curve) |-> curve[i].time]

\* Lines 126-155.
generateCombinedCurve(timeOffset, blendRatio, timeRange, points, startTime) ==
  LET hypeCurve == generateHypeCycle(timeRange, points, startTime)
      originalSCurve == generateSCurve(timeRange, points, startTime)
      originalTimes == TimesOf(hypeCurve)
      sCurve == offsetCurve(originalSCurve, timeOffset, originalTimes)
      combinedCurve == blendCurves(hypeCurve, sCurve, blendRatio)
  IN  [hypeCurve |-> hypeCurve, sCurve |-> sCurve, combinedCurve |-> combinedCurve]

-----------------------------------------------------------------------------
(* Arguments *)

MaxPoints == 4

MaxLen == 3

MaxBlendLen == 2

\* Every sequence over S of length at most n.
SeqsUpTo(S, n) == UNION {[1..k -> S] : k \in 0..n}

TimeRanges == {R(1), R(4), R(12), Q(5, 2)}

StartTimes == {R(-2), R(0), R(1), Q(-1, 2)}

TimeOffsets == {R(-3), Q(-1, 2), R(0), R(1), Q(5, 2)}

BlendRatios == {R(0), Q(1, 4), Q(1, 2), R(1), R(2)}

BlendPoints == {CurvePoint(t, v) : t \in {R(0), R(1)}, v \in {R(0), Q(1, 2), R(1)}}

OffsetPoints ==
  {CurvePoint(t, v) : t \in {R(0), R(1), R(2)}, v \in {R(0), Q(1, 2), Q(3, 2)}}

Offsets == {R(-1), R(0), Q(1, 2)}

RefTimes == {R(-1), R(0), Q(1, 2), R(1), R(2), R(3)}

\* The end-to-end example of the specification: combine(0, 0.5, 20, 4, -10).
ExampleCall ==
  [op |-> "generateCombinedCurve", timeOffset |-> R(0), blendRatio |-> Q(1, 2),
   timeRange |-> R(20), points |-> 4, startTime |-> R(-10)]

-----------------------------------------------------------------------------
(* One call of one function *)

NotCalledYet == ret = <<>> /\ pc = "call"

CallGenerateHypeCycle ==
  /\ pc = "call"
  /\ call.op = "generateHypeCycle"
  /\ ret' = generateHypeCycle(call.timeRange, call.points, call.startTime)
  /\ pc' = "return"
  /\ UNCHANGED call

CallGenerateSCurve ==
  /\ pc = "call"
  /\ call.op = "generateSCurve"
  /\ ret' = generateSCurve(call.timeRange, call.points, call.startTime)
  /\ pc' = "return"
  /\ UNCHANGED call

CallBlendCurves ==
  /\ pc = "call"
  /\ call.op = "blendCurves"
  /\ ret' = blendCurves(call.curve1, call.curve2, call.blendRatio)
  /\ pc' = "return"
  /\ UNCHANGED call

CallOffsetCurve ==
  /\ pc = "call"
  /\ call.op = "offsetCurve"
  /\ ret' = offsetCurve(call.curve, call.offset, call.originalTimes)
  /\ pc' = IF offsetCurveThrows(call.curve, call.originalTimes) THEN "throw" ELSE "return"
  /\ UNCHANGED call

CallGenerateCombinedCurve ==
  /\ pc = "call"
  /\ call.op = "generateCombinedCurve"
  /\ ret' = generateCombinedCurve(call.timeOffset, call.blendRatio, call.timeRange,
                                  call.points, call.startTime)
  /\ pc' = "return"
  /\ UNCHANGED call

\* The generators.
InitGen ==
  /\ NotCalledYet
  /\ \E name \in {"generateHypeCycle", "generateSCurve"} :
       \E tr \in TimeRanges \cup {R(0)}, p \in 0..MaxPoints, st \in StartTimes :
         call = [op |-> name, timeRange |-> tr, points |-> p, startTime |-> st]

NextGen == CallGenerateHypeCycle \/ CallGenerateSCurve

SpecGen == InitGen /\ [][NextGen]_vars

\* blendCurves.
InitBlend ==
  /\ NotCalledYet
  /\ \E a \in SeqsUpTo(BlendPoints, MaxBlendLen) :
       \E b \in SeqsUpTo(BlendPoints, MaxBlendLen), r \in BlendRatios :
         call = [op |-> "blendCurves", curve1 |-> a, curve2 |-> b, blendRatio |-> r]

NextBlend == CallBlendCurves

SpecBlend == InitBlend /\ [][NextBlend]_vars

\* offsetCurve.
\* The reference times are the curve's own times, no time or one time.
InitOffset ==
  /\ NotCalledYet
  /\ \E c \in SeqsUpTo(OffsetPoints, MaxLen) :
       \E o \in Offsets, ts \in {TimesOf(c), <<>>} \cup {<<t>> : t \in RefTimes} :
         call = [op |-> "offsetCurve", curve |-> c, offset |-> o, originalTimes |-> ts]

NextOffset == CallOffsetCurve

SpecOffset == InitOffset /\ [][NextOffset]_vars

\* generateCombinedCurve.
InitCombined ==
  /\ NotCalledYet
  /\ \/ call = ExampleCall
     \/ \E o \in TimeOffsets, r \in BlendRatios :
          \E tr \in TimeRanges, p \in 0..MaxPoints, st \in StartTimes :
            call = [op |-> "generateCombinedCurve", timeOffset |-> o, blendRatio |-> r,
                    timeRange |-> tr, points |-> p, startTime |-> st]

NextCombined == CallGenerateCombinedCurve

SpecCombined == InitCombined /\ [][NextCombined]_vars

\* Every function.
Init == InitGen \/ InitBlend \/ InitOffset \/ InitCombined

Next == NextGen \/ NextBlend \/ NextOffset \/ NextCombined

Spec == Init /\ [][Next]_vars

-----------------------------------------------------------------------------
(* Properties *)

Returned(name) == pc = "return" /\ call.op = name

InUnit(v) == RLe(R(0), v) /\ RLe(v, R(1))

Between(v, a, b) == RLe(RMin(a, b), v) /\ RLe(v, RMax(a, b))

StrictlyIncreasing(times) ==
  \A i \in 1..(Len(times) - 1) : RLt(times[i], times[i + 1])

ValuesInUnit(curve) == \A i \in 1..Len(curve) : InUnit(curve[i].value)

MinLen(a, b) == IF Len(a) < Len(b) THEN Len(a) ELSE Len(b)

\* C1: for a positive domain length and pointCount >= 1, generateHypeCycle
\* returns pointCount + 1 points, strictly increasing in time, with every value
\* in [0, 1].
C1_HypeCycleShape ==
  (Returned("generateHypeCycle") /\ RLt(R(0), call.timeRange) /\ call.points >= 1)
    => /\ Len(ret) = call.points + 1
       /\ StrictlyIncreasing(TimesOf(ret))
       /\ ValuesInUnit(ret)

C1_Witness ==
  /\ Returned("generateHypeCycle")
  /\ RLt(R(0), call.timeRange)
  /\ call.points = 3
  /\ RLt(call.startTime, R(0))
  /\ Len(ret) = 4
  /\ ret[1].value = Q(5, 100)
  /\ ret[4].value # Q(5, 100)

\* C6: with pointCount = 0 generateHypeCycle returns one point whose time is
\* domainStart, and raises no error.
C6_ZeroPointsAtDomainStart ==
  (pc # "call" /\ call.op = "generateHypeCycle" /\ call.points = 0
     /\ RLt(R(0), call.timeRange))
    => /\ pc = "return"
       /\ Len(ret) = 1
       /\ ret[1].time = call.startTime

\* C3 as stated: for all curves A and B, blendCurves(A, B, 0) equals A,
\* blendCurves(A, B, 1) equals B, and blendCurves(A, B, 0.5) is the average at
\* every index.
C3_BlendEndpointsAnyCurves ==
  Returned("blendCurves")
    => /\ call.blendRatio = R(0) => ret = call.curve1
       /\ call.blendRatio = R(1) => ret = call.curve2
       /\ call.blendRatio = Q(1, 2) =>
            \A i \in 1..Len(ret) :
              ret[i].value = RDiv(RAdd(call.curve1[i].value, call.curve2[i].value), R(2))

\* C3 amended: with n = min(len A, len B), blendCurves(A, B, 0) is the first n
\* points of A; blendCurves(A, B, 1) has n points, point i with A's time and
\* B's value, hence equals B when A and B have the same length and times;
\* blendCurves(A, B, 0.5) has n points, each the average of A's and B's values.
C3_BlendEndpoints ==
  Returned("blendCurves")
    => LET A == call.curve1
           B == call.curve2
           n == MinLen(A, B)
       IN  /\ call.blendRatio = R(0) => ret = SubSeq(A, 1, n)
           /\ call.blendRatio = R(1) =>
                /\ Len(ret) = n
                /\ \A i \in 1..n : ret[i] = CurvePoint(A[i].time, B[i].value)
                /\ (Len(A) = Len(B) /\ TimesOf(A) = TimesOf(B)) => ret = B
           /\ call.blendRatio = Q(1, 2) =>
                /\ Len(ret) = n
                /\ \A i \in 1..n :
                     ret[i].value = RDiv(RAdd(A[i].value, B[i].value), R(2))

C3_Witness ==
  /\ Returned("blendCurves")
  /\ call.blendRatio = R(1)
  /\ Len(call.curve1) = 2
  /\ Len(call.curve2) = 2
  /\ TimesOf(call.curve1) = TimesOf(call.curve2)
  /\ call.curve1[1].value # call.curve2[1].value
  /\ ret = call.curve2

\* The result of blendCurves: min(len A, len B) points, point i with A's time
\* and the value A[i].value * (1 - ratio) + B[i].value * ratio, not clamped,
\* and no error.
C8_BlendStatePart ==
  (pc # "call" /\ call.op = "blendCurves")
    => LET A == call.curve1
           B == call.curve2
           r == call.blendRatio
       IN  /\ pc = "return"
           /\ Len(ret) = MinLen(A, B)
           /\ \A i \in 1..Len(ret) :
                /\ ret[i].time = A[i].time
                /\ ret[i].value = RAdd(RMul(A[i].value, RSub(R(1), r)), RMul(B[i].value, r))

\* C8: blendCurves(A, B, ratio) returns min(len A, len B) points; point i has
\* A's time and the value A[i].value * (1 - ratio) + B[i].value * ratio, not
\* clamped; mismatched lengths or times raise no error; the call leaves A and
\* B as they were.
C8_BlendPointwise ==
  /\ []C8_BlendStatePart
  /\ [][call.op = "blendCurves" =>
          (call'.curve1 = call.curve1 /\ call'.curve2 = call.curve2)]_vars

C8_Witness ==
  /\ Returned("blendCurves")
  /\ Len(call.curve1) = 2
  /\ Len(call.curve2) = 1
  /\ call.curve1[1].time # call.curve2[1].time
  /\ call.blendRatio = R(2)
  /\ Len(ret) = 1
  /\ RLt(R(1), ret[1].value)

\* A curve of the data model: times strictly increasing, values in [0, 1].
WellFormed(curve) == StrictlyIncreasing(TimesOf(curve)) /\ ValuesInUnit(curve)

ZeroOffsetOnOwnGrid ==
  /\ call.op = "offsetCurve"
  /\ call.offset = R(0)
  /\ call.originalTimes = TimesOf(call.curve)

SameValues(a, b) ==
  /\ Len(a) = Len(b)
  /\ \A i \in 1..Len(a) : a[i].value = b[i].value

C4_ClampToBoundaryValue ==
  (Returned("offsetCurve") /\ Len(call.curve) >= 1 /\ WellFormed(call.curve))
    => LET m == offsetCurveMap(call.curve, call.offset)
       IN  \A i \in 1..Len(call.originalTimes) :
             /\ RLt(call.originalTimes[i], m[1].time) => ret[i].value = m[1].value
             /\ RLt(m[Len(m)].time, call.originalTimes[i]) =>
                  ret[i].value = m[Len(m)].value

\* Linear interpolation between two points at time, clamped to [0, 1].
ClampedLerp(before, after, time) ==
  RMax(R(0),
       RMin(R(1),
            RAdd(before.value,
                 RMul(RDiv(RSub(time, before.time), RSub(after.time, before.time)),
                      RSub(after.value, before.value)))))

\* The consecutive pairs of m around time.
Bracketing(m, time) ==
  {i \in 1..(Len(m) - 1) : RLe(m[i].time, time) /\ RLe(time, m[i + 1].time)}

\* C9: for every non-empty curve and every reference time, offsetCurve never
\* divides by zero: when the selected pair has one time, the value returned is
\* the before point's; otherwise the selected pair is the first consecutive
\* pair around the reference time and the value is the clamped interpolation.
C9_SelectedPair ==
  (Returned("offsetCurve") /\ Len(call.curve) >= 1)
    => LET m == offsetCurveMap(call.curve, call.offset)
       IN  \A i \in 1..Len(call.originalTimes) :
             LET time == call.originalTimes[i]
                 before == beforePoint(m, time)
                 after == afterPoint(m, time)
                 pairs == Bracketing(m, time)
             IN  /\ ~IsNaN(ret[i].value)
                 /\ IF before.time = after.time THEN ret[i].value = before.value
                    ELSE /\ pairs # {}
                         /\ \E k \in pairs :
                              /\ \A j \in pairs : k <= j
                              /\ before = m[k]
                              /\ after = m[k + 1]
                         /\ ret[i].value = ClampedLerp(before, after, time)

ExampleReturned == pc = "return" /\ call = ExampleCall

\* C5 as stated: generateCombinedCurve(0, 0.5, 20, 4, -10) returns three curves
\* of 5 points at the times -10, -5, 0, 5, 10, and the hype value is 0.05 at
\* the times -10, -5 and 0.
C5_ExampleSpansMinus10To10 ==
  ExampleReturned
    => LET grid == <<R(-10), R(-5), R(0), R(5), R(10)>>
       IN  /\ TimesOf(ret.hypeCurve) = grid
           /\ TimesOf(ret.sCurve) = grid
           /\ TimesOf(ret.combinedCurve) = grid
           /\ \A i \in 1..3 : ret.hypeCurve[i].value = Q(5, 100)

\* C5 amended: generateCombinedCurve(0, 0.5, 20, 4, -10) returns three curves
\* of 5 points at the times -10, -2.5, 5, 12.5, 20 (the domain spans [-10, 20]:
\* its length is timeRange + |startTime| = 30), and the hype value is the
\* baseline 0.05 at the two negative times -10 and -2.5 and at no other time.
C5_ExampleSpansMinus10To20 ==
  ExampleReturned
    => LET grid == <<R(-10), Q(-5, 2), R(5), Q(25, 2), R(20)>>
       IN  /\ TimesOf(ret.hypeCurve) = grid
           /\ TimesOf(ret.sCurve) = grid
           /\ TimesOf(ret.combinedCurve) = grid
           /\ \A i \in 1..5 : (ret.hypeCurve[i].value = Q(5, 100)) <=> (i <= 2)

C5_Witness ==
  /\ ExampleReturned
  /\ Len(ret.hypeCurve) = 5
  /\ ret.hypeCurve[2] = CurvePoint(Q(-5, 2), Q(5, 100))

ValidCombinedCall ==
  /\ Returned("generateCombinedCurve")
  /\ RLt(R(0), call.timeRange)
  /\ call.points >= 1

\* C7: for a valid domain and pointCount >= 1 the three curves returned by
\* generateCombinedCurve have pointCount + 1 points each, and at every index
\* the three points have the hype curve's time.
C7_ThreeCurvesAligned ==
  ValidCombinedCall
    => /\ Len(ret.hypeCurve) = call.points + 1
       /\ Len(ret.sCurve) = call.points + 1
       /\ Len(ret.combinedCurve) = call.points + 1
       /\ \A i \in 1..(call.points + 1) :
            /\ ret.sCurve[i].time = ret.hypeCurve[i].time
            /\ ret.combinedCurve[i].time = ret.hypeCurve[i].time

C7_Witness ==
  /\ ValidCombinedCall
  /\ call.points = 3
  /\ call.timeOffset = Q(5, 2)
  /\ Len(ret.combinedCurve) = 4
  /\ TimesOf(ret.sCurve) = TimesOf(ret.hypeCurve)

\* C10: for a valid domain and 0 <= blendRatio <= 1, every combined value lies
\* between the hype value and the resampled adoption value at the same index,
\* and every value of the three curves is in [0, 1].
C10_CombinedBetween ==
  (ValidCombinedCall /\ InUnit(call.blendRatio))
    => /\ \A i \in 1..Len(ret.combinedCurve) :
            Between(ret.combinedCurve[i].value, ret.hypeCurve[i].value,
                    ret.sCurve[i].value)
       /\ ValuesInUnit(ret.hypeCurve)
       /\ ValuesInUnit(ret.sCurve)
       /\ ValuesInUnit(ret.combinedCurve)

C10_Witness ==
  /\ ValidCombinedCall
  /\ call.blendRatio = Q(1, 4)
  /\ call.timeOffset = R(-3)
  /\ \E i \in 1..Len(ret.combinedCurve) :
       /\ RLt(ret.hypeCurve[i].value, ret.combinedCurve[i].value)
       /\ RLt(ret.combinedCurve[i].value, ret.sCurve[i].value)

=============================================================================
